---- MODULE Spec2Model ----
(***************************************************************************)
(* Model of crypto_signal_bot.py: fetch_ohlcv -> compute_indicators ->      *)
(* dropna().iloc[-1] -> generate_signal -> report.                          *)
(*                                                                          *)
(* Floating-point values are modelled as exact rationals <<num, den>> with  *)
(* den > 0; the not-a-number value is the pair with den = 0.  Comparisons   *)
(* follow IEEE-754: every ordered comparison with NaN is false.             *)
(***************************************************************************)
EXTENDS Integers, Sequences, FiniteSets, TLC

\* ------------------------------------------------------------- bounds
MaxBars == 3
MaxWindow == 2
MaxVal == 2

VARIABLES pc, cfg, df, latest, vote_steps, signal_votes, signal, timestamp, output, error

vars == <<pc, cfg, df, latest, vote_steps, signal_votes, signal, timestamp, output, error>>

\* ------------------------------------------------- floats as rationals
NaN == <<0, 0>>

isnan(x) == x[2] = 0

R(n) == <<n, 1>>

Abs(n) == IF n < 0 THEN -n ELSE n

RECURSIVE GCD(_, _)
GCD(a, b) == IF b = 0 THEN a ELSE GCD(b, a % b)

Norm(n, d) ==
    LET g == GCD(Abs(n), Abs(d))
        s == IF d < 0 THEN -1 ELSE 1
    IN  <<(s * n) \div g, (s * d) \div g>>

Add(a, b) == IF isnan(a) \/ isnan(b) THEN NaN
             ELSE Norm(a[1] * b[2] + b[1] * a[2], a[2] * b[2])

Sub(a, b) == IF isnan(a) \/ isnan(b) THEN NaN
             ELSE Norm(a[1] * b[2] - b[1] * a[2], a[2] * b[2])

Mul(a, b) == IF isnan(a) \/ isnan(b) THEN NaN
             ELSE Norm(a[1] * b[1], a[2] * b[2])

\* a / b for b # 0 (the callers guard the zero divisor)
Div(a, b) == IF isnan(a) \/ isnan(b) \/ b[1] = 0 THEN NaN
             ELSE Norm(a[1] * b[2], a[2] * b[1])

Gt(a, b) == ~isnan(a) /\ ~isnan(b) /\ a[1] * b[2] > b[1] * a[2]

Lt(a, b) == ~isnan(a) /\ ~isnan(b) /\ a[1] * b[2] < b[1] * a[2]

\* --------------------------------------------------- data frame helpers
\* A data frame is a sequence of rows [index |-> timestamp, col |-> mapping
\* from column key to value]; assigning a column overwrites an existing key.
Put(row, key, val) ==
    [k \in (DOMAIN row) \cup {key} |-> IF k = key THEN val ELSE row[k]]

Column(d, key) == [i \in 1..Len(d) |-> d[i].col[key]]

SetColumn(d, key, vals) ==
    [i \in 1..Len(d) |->
        [index |-> d[i].index, col |-> Put(d[i].col, key, vals[i])]]

\* fault variant: no row is dropped
dropna_keep_all(d) == d

dropna(d) == SelectSeq(d, LAMBDA r : \A k \in DOMAIN r.col : ~isnan(r.col[k]))

SmaKey(n) == "sma_" \o ToString(n)

\* ----------------------------------------------------------- fetch_ohlcv
\* One bar per raw entry, indexed by its timestamp (strictly increasing).
\* The exchange reports finite values.  Only close is read downstream; open,
\* high and low are taken equal to it.
Bar(i, c) ==
    [index |-> i,
     col |-> [k \in {"open", "high", "low", "close", "volume"} |->
                 IF k = "volume" THEN R(1) ELSE R(c)]]

fetch_ohlcv(raw) == [i \in 1..Len(raw) |-> Bar(i, raw[i])]

\* close prices the exchange may report
ClosePrices == {1, 2}

RawSeries == UNION {[1..n -> ClosePrices] : n \in 0..MaxBars}

\* ------------------------------------------------- indicator arithmetic
RECURSIVE SumRange(_, _, _)
SumRange(xs, lo, hi) ==
    IF lo > hi THEN R(0) ELSE Add(xs[lo], SumRange(xs, lo + 1, hi))

\* rolling(window, min_periods=window).mean()
sma_indicator(close, window) ==
    [i \in 1..Len(close) |->
        IF i < window THEN NaN
        ELSE Div(SumRange(close, i - window + 1, i), R(window))]

\* ewm(alpha, adjust=False).mean(): seeded with the first defined
\* observation, y[i] = (1 - alpha) * y[i-1] + alpha * x[i]; the series it is
\* applied to are undefined on a prefix only.
RECURSIVE ewm_at(_, _, _)
ewm_at(xs, alpha, i) ==
    IF isnan(xs[i]) THEN NaN
    ELSE IF i = 1 \/ isnan(xs[i - 1]) THEN xs[i]
    ELSE Add(Mul(Sub(R(1), alpha), ewm_at(xs, alpha, i - 1)), Mul(alpha, xs[i]))

NObs(xs, i) == Cardinality({j \in 1..i : ~isnan(xs[j])})

ewm_mean(xs, alpha, min_periods) ==
    [i \in 1..Len(xs) |->
        IF NObs(xs, i) < min_periods THEN NaN ELSE ewm_at(xs, alpha, i)]

\* RSIIndicator(close, window).rsi(): Wilder smoothing (alpha = 1/window) of
\* the gains and losses, 100 where the smoothed loss is zero.
rsi_indicator(close, window) ==
    LET diff == [i \in 1..Len(close) |->
                    IF i = 1 THEN NaN ELSE Sub(close[i], close[i - 1])]
        up == [i \in 1..Len(close) |->
                    IF Gt(diff[i], R(0)) THEN diff[i] ELSE R(0)]
        dn == [i \in 1..Len(close) |->
                    IF Lt(diff[i], R(0)) THEN Sub(R(0), diff[i]) ELSE R(0)]
        emaup == ewm_mean(up, Div(R(1), R(window)), window)
        emadn == ewm_mean(dn, Div(R(1), R(window)), window)
    IN  [i \in 1..Len(close) |->
            IF ~isnan(emadn[i]) /\ emadn[i][1] = 0 THEN R(100)
            ELSE Sub(R(100),
                     Div(R(100), Add(R(1), Div(emaup[i], emadn[i]))))]

\* EMA with span n: alpha = 2 / (n + 1), min_periods = n
ema(xs, n) == ewm_mean(xs, Div(R(2), R(n + 1)), n)

macd_line(close, window_fast, window_slow) ==
    LET emafast == ema(close, window_fast)
        emaslow == ema(close, window_slow)
    IN  [i \in 1..Len(close) |-> Sub(emafast[i], emaslow[i])]

macd_signal_line(close, window_fast, window_slow, window_sign) ==
    ema(macd_line(close, window_fast, window_slow), window_sign)

macd_diff(close, window_fast, window_slow, window_sign) ==
    LET m == macd_line(close, window_fast, window_slow)
        s == macd_signal_line(close, window_fast, window_slow, window_sign)
    IN  [i \in 1..Len(close) |-> Sub(m[i], s[i])]

\* ---------------------------------------------------- compute_indicators
compute_indicators(d, sma_fast, sma_slow, rsi_period, macd_fast, macd_slow, macd_signal) ==
    LET d1 == SetColumn(d, SmaKey(sma_fast),
                        sma_indicator(Column(d, "close"), sma_fast))
        d2 == SetColumn(d1, SmaKey(sma_slow),
                        sma_indicator(Column(d1, "close"), sma_slow))
        d3 == SetColumn(d2, "rsi",
                        rsi_indicator(Column(d2, "close"), rsi_period))
        cl == Column(d3, "close")
        d4 == SetColumn(d3, "macd", macd_line(cl, macd_fast, macd_slow))
        d5 == SetColumn(d4, "macd_signal",
                        macd_signal_line(cl, macd_fast, macd_slow, macd_signal))
        d6 == SetColumn(d5, "macd_hist",
                        macd_diff(cl, macd_fast, macd_slow, macd_signal))
    IN  d6

\* -------------------------------------------------------- generate_signal
\* Each step returns the bias label and the vote list after the step.  The
\* *_nan_as_zero, *_tie_bullish, *_inclusive, *_momentum, *_strict and *_eager
\* operators are fault variants of the operator that follows them; the
\* properties below are checked to be sensitive to them.
sma_step_nan_as_zero(votes, sma_fast_val, sma_slow_val) ==
    LET f == IF isnan(sma_fast_val) THEN R(0) ELSE sma_fast_val
        s == IF isnan(sma_slow_val) THEN R(0) ELSE sma_slow_val
    IN  IF Gt(f, s) THEN [bias |-> "bullish", votes |-> Append(votes, 1)]
        ELSE IF Lt(f, s) THEN [bias |-> "bearish", votes |-> Append(votes, -1)]
        ELSE [bias |-> "neutral", votes |-> votes]

sma_step_tie_bullish(votes, sma_fast_val, sma_slow_val) ==
    IF isnan(sma_fast_val) \/ isnan(sma_slow_val)
    THEN [bias |-> "neutral", votes |-> votes]
    ELSE IF ~Lt(sma_fast_val, sma_slow_val)
    THEN [bias |-> "bullish", votes |-> Append(votes, 1)]
    ELSE [bias |-> "bearish", votes |-> Append(votes, -1)]

sma_step(votes, sma_fast_val, sma_slow_val) ==
    IF isnan(sma_fast_val) \/ isnan(sma_slow_val)
    THEN [bias |-> "neutral", votes |-> votes]
    ELSE IF Gt(sma_fast_val, sma_slow_val)
    THEN [bias |-> "bullish", votes |-> Append(votes, 1)]
    ELSE IF Lt(sma_fast_val, sma_slow_val)
    THEN [bias |-> "bearish", votes |-> Append(votes, -1)]
    ELSE [bias |-> "neutral", votes |-> votes]

rsi_step_inclusive(votes, rsi_val, rsi_upper, rsi_lower) ==
    IF isnan(rsi_val)
    THEN [bias |-> "neutral", votes |-> votes]
    ELSE IF ~Lt(rsi_val, rsi_upper)
    THEN [bias |-> "overbought", votes |-> Append(votes, -1)]
    ELSE IF ~Gt(rsi_val, rsi_lower)
    THEN [bias |-> "oversold", votes |-> Append(votes, 1)]
    ELSE [bias |-> "neutral", votes |-> votes]

rsi_step_momentum(votes, rsi_val, rsi_upper, rsi_lower) ==
    IF isnan(rsi_val)
    THEN [bias |-> "neutral", votes |-> votes]
    ELSE IF Gt(rsi_val, rsi_upper)
    THEN [bias |-> "overbought", votes |-> Append(votes, 1)]
    ELSE IF Lt(rsi_val, rsi_lower)
    THEN [bias |-> "oversold", votes |-> Append(votes, -1)]
    ELSE [bias |-> "neutral", votes |-> votes]

rsi_step(votes, rsi_val, rsi_upper, rsi_lower) ==
    IF isnan(rsi_val)
    THEN [bias |-> "neutral", votes |-> votes]
    ELSE IF Gt(rsi_val, rsi_upper)
    THEN [bias |-> "overbought", votes |-> Append(votes, -1)]
    ELSE IF Lt(rsi_val, rsi_lower)
    THEN [bias |-> "oversold", votes |-> Append(votes, 1)]
    ELSE [bias |-> "neutral", votes |-> votes]

macd_step_tie_bullish(votes, macd_val, macd_signal_val) ==
    IF isnan(macd_val) \/ isnan(macd_signal_val)
    THEN [bias |-> "neutral", votes |-> votes]
    ELSE IF ~Lt(macd_val, macd_signal_val)
    THEN [bias |-> "bullish", votes |-> Append(votes, 1)]
    ELSE [bias |-> "bearish", votes |-> Append(votes, -1)]

macd_step(votes, macd_val, macd_signal_val) ==
    IF isnan(macd_val) \/ isnan(macd_signal_val)
    THEN [bias |-> "neutral", votes |-> votes]
    ELSE IF Gt(macd_val, macd_signal_val)
    THEN [bias |-> "bullish", votes |-> Append(votes, 1)]
    ELSE IF Lt(macd_val, macd_signal_val)
    THEN [bias |-> "bearish", votes |-> Append(votes, -1)]
    ELSE [bias |-> "neutral", votes |-> votes]

RECURSIVE sum(_)
sum(xs) == IF xs = <<>> THEN 0 ELSE Head(xs) + sum(Tail(xs))

overall_of_strict(votes) ==
    IF votes = <<>> THEN "neutral"
    ELSE LET score == sum(votes)
         IN  IF score > 0 THEN (IF score >= 3 THEN "strong_buy" ELSE "buy")
             ELSE IF score < 0 THEN (IF score <= -3 THEN "strong_sell" ELSE "sell")
             ELSE "neutral"

overall_of_eager(votes) ==
    IF votes = <<>> THEN "neutral"
    ELSE LET score == sum(votes)
         IN  IF score > 0 THEN "strong_buy"
             ELSE IF score < 0 THEN "strong_sell"
             ELSE "neutral"

overall_of(votes) ==
    IF votes = <<>> THEN "neutral"
    ELSE LET score == sum(votes)
         IN  IF score > 0 THEN (IF score >= 2 THEN "strong_buy" ELSE "buy")
             ELSE IF score < 0 THEN (IF score <= -2 THEN "strong_sell" ELSE "sell")
             ELSE "neutral"

\* The function's locals at its return statement; vote_steps is signal_votes
\* as it stood after the SMA, the RSI and the MACD section.
signal_locals(row, sma_fast, sma_slow, rsi_upper, rsi_lower) ==
    LET sma == sma_step(<<>>, row.col[SmaKey(sma_fast)], row.col[SmaKey(sma_slow)])
        rsi == rsi_step(sma.votes, row.col["rsi"], rsi_upper, rsi_lower)
        macd == macd_step(rsi.votes, row.col["macd"], row.col["macd_signal"])
    IN  [sma_bias |-> sma.bias, rsi_bias |-> rsi.bias, macd_bias |-> macd.bias,
         vote_steps |-> <<sma.votes, rsi.votes, macd.votes>>,
         signal_votes |-> macd.votes, overall |-> overall_of(macd.votes)]

generate_signal(row, sma_fast, sma_slow, rsi_upper, rsi_lower) ==
    LET l == signal_locals(row, sma_fast, sma_slow, rsi_upper, rsi_lower)
    IN  [overall_signal |-> l.overall,
         details |-> [sma_bias |-> l.sma_bias,
                      rsi_bias |-> l.rsi_bias,
                      macd_bias |-> l.macd_bias,
                      price |-> row.col["close"],
                      rsi |-> row.col["rsi"],
                      macd |-> row.col["macd"],
                      macd_signal |-> row.col["macd_signal"]]]

\* ------------------------------------------------------------------ main
NoRow == [index |-> 0, col |-> [k \in {"close"} |-> NaN]]

NoSignal ==
    [overall_signal |-> "none",
     details |-> [sma_bias |-> "none", rsi_bias |-> "none", macd_bias |-> "none",
                  price |-> NaN, rsi |-> NaN, macd |-> NaN, macd_signal |-> NaN]]

\* parse_args: the window lengths are positive integers, thresholds default
Configs ==
    [sma_fast : 1..MaxWindow, sma_slow : 1..MaxWindow, rsi_period : 1..MaxWindow,
     rsi_upper : {R(70)}, rsi_lower : {R(30)},
     macd_fast : 1..MaxWindow, macd_slow : 1..MaxWindow, macd_signal : 1..MaxWindow]

Init ==
    /\ pc = "start"
    /\ cfg \in Configs
    /\ df = <<>>
    /\ latest = NoRow
    /\ vote_steps = <<>>
    /\ signal_votes = <<>>
    /\ signal = NoSignal
    /\ timestamp = 0
    /\ output = <<>>
    /\ error = "none"

\* line 138: the exchange answers with a list of candles
FetchOhlcv ==
    /\ pc = "start"
    /\ \E raw \in RawSeries : df' = fetch_ohlcv(raw)
    /\ pc' = "fetched"
    /\ UNCHANGED <<cfg, latest, vote_steps, signal_votes, signal, timestamp, output, error>>

\* line 138: the exchange id is unknown or the request fails; main catches nothing
FetchFails ==
    /\ pc = "start"
    /\ pc' = "aborted"
    /\ error' = "ExchangeError"
    /\ UNCHANGED <<cfg, df, latest, vote_steps, signal_votes, signal, timestamp, output>>

\* lines 139-147
ComputeIndicators ==
    /\ pc = "fetched"
    /\ df' = compute_indicators(df, cfg.sma_fast, cfg.sma_slow, cfg.rsi_period,
                                cfg.macd_fast, cfg.macd_slow, cfg.macd_signal)
    /\ pc' = "computed"
    /\ UNCHANGED <<cfg, latest, vote_steps, signal_votes, signal, timestamp, output, error>>

\* fault variant: iloc[0]
first_row(d) == d[1]

\* iloc[-1] of a frame
last_row(d) == d[Len(d)]

\* line 149: iloc[-1] of an empty frame raises IndexError
SelectLatest ==
    /\ pc = "computed"
    /\ IF dropna(df) = <<>>
       THEN /\ pc' = "aborted"
            /\ error' = "IndexError"
            /\ UNCHANGED latest
       ELSE /\ latest' = last_row(dropna(df))
            /\ pc' = "selected"
            /\ UNCHANGED error
    /\ UNCHANGED <<cfg, df, vote_steps, signal_votes, signal, timestamp, output>>

\* lines 150-156
Classify ==
    /\ pc = "selected"
    /\ signal' = generate_signal(latest, cfg.sma_fast, cfg.sma_slow,
                                 cfg.rsi_upper, cfg.rsi_lower)
    /\ signal_votes' = signal_locals(latest, cfg.sma_fast, cfg.sma_slow,
                                     cfg.rsi_upper, cfg.rsi_lower).signal_votes
    /\ vote_steps' = signal_locals(latest, cfg.sma_fast, cfg.sma_slow,
                                   cfg.rsi_upper, cfg.rsi_lower).vote_steps
    /\ pc' = "classified"
    /\ UNCHANGED <<cfg, df, latest, timestamp, output, error>>

\* lines 158-166
Report ==
    /\ pc = "classified"
    /\ timestamp' = last_row(dropna(df)).index
    /\ output' = << <<"Last candle", timestamp'>>,
                    <<"Overall signal", signal.overall_signal>>,
                    <<"Details", signal.details>> >>
    /\ pc' = "done"
    /\ UNCHANGED <<cfg, df, latest, vote_steps, signal_votes, signal, error>>

Next ==
    \/ FetchOhlcv
    \/ FetchFails
    \/ ComputeIndicators
    \/ SelectLatest
    \/ Classify
    \/ Report

Spec == Init /\ [][Next]_vars

\* ------------------------------------- generate_signal on arbitrary rows
Vals == {NaN} \cup {R(v) : v \in 0..MaxVal}

Thresholds == {R(v) : v \in 0..MaxVal}

ClassifyConfigs ==
    [sma_fast : 1..MaxWindow, sma_slow : 1..MaxWindow, rsi_period : {1},
     rsi_upper : Thresholds, rsi_lower : Thresholds,
     macd_fast : {1}, macd_slow : {1}, macd_signal : {1}]

\* the columns generate_signal reads, under the keys compute_indicators writes
SignalColumns(c) ==
    {"close", SmaKey(c.sma_fast), SmaKey(c.sma_slow), "rsi", "macd", "macd_signal"}

InitClassify ==
    /\ pc = "selected"
    /\ cfg \in ClassifyConfigs
    /\ df = <<>>
    /\ \E vals \in [SignalColumns(cfg) \ {"close"} -> Vals] :
          latest = [index |-> 1, col |-> Put(vals, "close", R(1))]
    /\ vote_steps = <<>>
    /\ signal_votes = <<>>
    /\ signal = NoSignal
    /\ timestamp = 0
    /\ output = <<>>
    /\ error = "none"

SpecClassify == InitClassify /\ [][Classify]_vars

\* ============================================================ properties
\* generate_signal has returned
Classified == pc \in {"classified", "done"}

SmaFastVal == latest.col[SmaKey(cfg.sma_fast)]
SmaSlowVal == latest.col[SmaKey(cfg.sma_slow)]
RsiVal == latest.col["rsi"]
MacdVal == latest.col["macd"]
MacdSignalVal == latest.col["macd_signal"]

Count(v, x) == Cardinality({i \in DOMAIN v : v[i] = x})

Score(v) == Count(v, 1) - Count(v, -1)

Labels == {"strong_buy", "buy", "neutral", "sell", "strong_sell"}

\* C1: the overall signal follows the aggregation table: no vote cast gives
\* "neutral"; otherwise score >= 2 gives "strong_buy", 1 "buy", 0 "neutral",
\* -1 "sell", <= -2 "strong_sell"; no other value is returned.
C1_AggregationTable ==
    Classified =>
        LET n == Len(signal_votes)
            score == Score(signal_votes)
            o == signal.overall_signal
        IN  /\ o \in Labels
            /\ \A i \in 1..n : signal_votes[i] \in {1, -1}
            /\ n <= 3
            /\ (n = 0 => o = "neutral")
            /\ (n > 0 /\ score >= 2 => o = "strong_buy")
            /\ (n > 0 /\ score = 1 => o = "buy")
            /\ (n > 0 /\ score = 0 => o = "neutral")
            /\ (n > 0 /\ score = -1 => o = "sell")
            /\ (n > 0 /\ score <= -2 => o = "strong_sell")

\* SMA bullish and MACD bearish cancel, RSI silent: "neutral" with votes cast
C1_Witness ==
    /\ Classified
    /\ signal.details.sma_bias = "bullish"
    /\ signal.details.rsi_bias = "neutral"
    /\ signal.details.macd_bias = "bearish"
    /\ signal_votes = <<1, -1>>
    /\ signal.overall_signal = "neutral"

\* C2: the RSI vote is contrarian (thresholds with rsi_lower <= rsi_upper):
\* rsi > rsi_upper is "overbought" and appends exactly one -1;
\* rsi < rsi_lower is "oversold" and appends exactly one +1; rsi within the
\* bounds (included) or NaN is "neutral" and appends nothing.
C2_RsiContrarian ==
    (Classified /\ ~Gt(cfg.rsi_lower, cfg.rsi_upper)) =>
        LET before == vote_steps[1]
            after == vote_steps[2]
            bias == signal.details.rsi_bias
        IN  /\ Gt(RsiVal, cfg.rsi_upper) =>
                   (bias = "overbought" /\ after = Append(before, -1))
            /\ Lt(RsiVal, cfg.rsi_lower) =>
                   (bias = "oversold" /\ after = Append(before, 1))
            /\ (isnan(RsiVal)
                  \/ (~Gt(RsiVal, cfg.rsi_upper) /\ ~Lt(RsiVal, cfg.rsi_lower))) =>
                   (bias = "neutral" /\ after = before)

\* an RSI exactly on the upper threshold, strictly above the lower one
C2_Witness ==
    /\ Classified
    /\ Lt(cfg.rsi_lower, cfg.rsi_upper)
    /\ RsiVal = cfg.rsi_upper
    /\ signal.details.rsi_bias = "neutral"
    /\ vote_steps[2] = vote_steps[1]

\* C3: the SMA vote: fast > slow is "bullish" and appends exactly one +1;
\* fast < slow is "bearish" and appends exactly one -1; equal values, or
\* either value NaN, is "neutral" and appends nothing.
C3_SmaVote ==
    Classified =>
        LET after == vote_steps[1]
            bias == signal.details.sma_bias
        IN  /\ Gt(SmaFastVal, SmaSlowVal) => (bias = "bullish" /\ after = <<1>>)
            /\ Lt(SmaFastVal, SmaSlowVal) => (bias = "bearish" /\ after = <<-1>>)
            /\ (isnan(SmaFastVal) \/ isnan(SmaSlowVal)
                  \/ (~Gt(SmaFastVal, SmaSlowVal) /\ ~Lt(SmaFastVal, SmaSlowVal))) =>
                   (bias = "neutral" /\ after = <<>>)

\* an undefined fast SMA beside a positive slow SMA: not read as 0 < slow
C3_Witness ==
    /\ Classified
    /\ isnan(SmaFastVal)
    /\ Gt(SmaSlowVal, R(0))
    /\ signal.details.sma_bias = "neutral"
    /\ vote_steps[1] = <<>>

\* C4: the MACD vote: macd > macd_signal is "bullish" and appends exactly
\* one +1; macd < macd_signal is "bearish" and appends exactly one -1; an
\* exact tie, or either value NaN, is "neutral" and appends nothing.
C4_MacdVote ==
    Classified =>
        LET before == vote_steps[2]
            after == vote_steps[3]
            bias == signal.details.macd_bias
        IN  /\ after = signal_votes
            /\ Gt(MacdVal, MacdSignalVal) =>
                   (bias = "bullish" /\ after = Append(before, 1))
            /\ Lt(MacdVal, MacdSignalVal) =>
                   (bias = "bearish" /\ after = Append(before, -1))
            /\ (isnan(MacdVal) \/ isnan(MacdSignalVal)
                  \/ (~Gt(MacdVal, MacdSignalVal) /\ ~Lt(MacdVal, MacdSignalVal))) =>
                   (bias = "neutral" /\ after = before)

\* an exact tie of two defined values
C4_Witness ==
    /\ Classified
    /\ ~isnan(MacdVal)
    /\ MacdVal = MacdSignalVal
    /\ signal.details.macd_bias = "neutral"
    /\ vote_steps[3] = vote_steps[2]

AllThreeAbove ==
    /\ Gt(SmaFastVal, SmaSlowVal)
    /\ Gt(RsiVal, cfg.rsi_upper)
    /\ Gt(MacdVal, MacdSignalVal)

\* C5 as stated: sma_fast > sma_slow, rsi > rsi_upper and macd > macd_signal
\* together give "strong_buy" with score 3.
C5_AsStated ==
    (Classified /\ AllThreeAbove) =>
        (signal.overall_signal = "strong_buy" /\ Score(signal_votes) = 3)

\* C5 amended: sma_fast > sma_slow, rsi > rsi_upper and macd > macd_signal
\* together give the votes +1, -1, +1 (the overbought RSI votes against),
\* hence score 1 and overall "buy".
C5_OverboughtCapsAtBuy ==
    (Classified /\ AllThreeAbove) =>
        /\ signal_votes = <<1, -1, 1>>
        /\ Score(signal_votes) = 1
        /\ signal.details.rsi_bias = "overbought"
        /\ signal.overall_signal = "buy"

C5_Witness ==
    /\ Classified
    /\ AllThreeAbove
    /\ signal.overall_signal = "buy"

\* C9: a strong verdict is unanimous: "strong_buy" needs at least two +1 and
\* no -1 (no "bearish", no "overbought" in details), "strong_sell" at least
\* two -1 and no +1 (no "bullish", no "oversold"); the score is in -3..3.
C9_StrongIsUnanimous ==
    Classified =>
        LET d == signal.details
        IN  /\ Score(signal_votes) \in -3..3
            /\ signal.overall_signal = "strong_buy" =>
                   /\ Count(signal_votes, 1) >= 2
                   /\ Count(signal_votes, -1) = 0
                   /\ d.sma_bias # "bearish"
                   /\ d.macd_bias # "bearish"
                   /\ d.rsi_bias # "overbought"
            /\ signal.overall_signal = "strong_sell" =>
                   /\ Count(signal_votes, -1) >= 2
                   /\ Count(signal_votes, 1) = 0
                   /\ d.sma_bias # "bullish"
                   /\ d.macd_bias # "bullish"
                   /\ d.rsi_bias # "oversold"

\* a strong_sell from two bearish votes with the RSI silent
C9_Witness ==
    /\ Classified
    /\ signal.overall_signal = "strong_sell"
    /\ signal.details.sma_bias = "bearish"
    /\ signal.details.rsi_bias = "neutral"
    /\ signal.details.macd_bias = "bearish"

\* ------------------------------------------------------ pipeline properties
\* the fields the votes are computed from
NeededKeys ==
    {SmaKey(cfg.sma_fast), SmaKey(cfg.sma_slow), "rsi", "macd", "macd_signal"}

AllNeededDefined(r) == \A k \in NeededKeys : ~isnan(r.col[k])

SomeNeededDefined(r) == \E k \in NeededKeys : ~isnan(r.col[k])

\* compute_indicators has returned
TableComputed ==
    \/ pc \in {"computed", "selected", "classified", "done"}
    \/ (pc = "aborted" /\ error = "IndexError")

NoFullRow == \A i \in 1..Len(df) : ~AllNeededDefined(df[i])

\* C6: the row handed to generate_signal is the most recent row of the
\* indicator table with sma_fast, sma_slow, rsi, macd and macd_signal all
\* defined: no later such row is skipped, no row with an undefined needed
\* field is classified, and the reported timestamp is that row's.
C6_LatestFullyDefinedRow ==
    pc \in {"selected", "classified", "done"} =>
        /\ \E i \in 1..Len(df) :
              /\ df[i] = latest
              /\ AllNeededDefined(df[i])
              /\ \A j \in (i + 1)..Len(df) : ~AllNeededDefined(df[j])
        /\ Classified =>
              /\ signal.details.price = latest.col["close"]
              /\ signal.details.rsi = latest.col["rsi"]
              /\ signal.details.macd = latest.col["macd"]
              /\ signal.details.macd_signal = latest.col["macd_signal"]
        /\ pc = "done" =>
              /\ timestamp = latest.index
              /\ output[1] = <<"Last candle", latest.index>>

\* a finished run whose table has an earlier fully defined row and a row
\* that is only partly defined
C6_Witness ==
    /\ pc = "done"
    /\ \E i \in 1..Len(df) : AllNeededDefined(df[i]) /\ df[i] # latest
    /\ \E i \in 1..Len(df) : SomeNeededDefined(df[i]) /\ ~AllNeededDefined(df[i])

\* C7 as stated: compute_indicators raises InsufficientDataError exactly on
\* the empty series, and otherwise returns one row per input bar.
C7_InsufficientDataIffEmpty ==
    [][pc = "fetched" =>
          IF Len(df) = 0
          THEN pc' = "aborted" /\ error' = "InsufficientDataError"
          ELSE pc' = "computed" /\ error' = "none" /\ Len(df') = Len(df)]_vars

\* C8: when no row of the indicator table has every needed field defined,
\* the run aborts before generate_signal is called and before anything is
\* printed: no verdict is produced.
C8_NoVerdictWithoutFullRow ==
    (TableComputed /\ NoFullRow) =>
        /\ pc \in {"computed", "aborted"}
        /\ latest = NoRow
        /\ signal = NoSignal
        /\ signal_votes = <<>>
        /\ output = <<>>

\* an aborted run over a non-empty table with a partly defined row
C8_Witness ==
    /\ pc = "aborted"
    /\ error = "IndexError"
    /\ NoFullRow
    /\ \E i \in 1..Len(df) : SomeNeededDefined(df[i])

ExpectedRsiVotes ==
    IF Gt(RsiVal, cfg.rsi_upper) THEN <<-1>>
    ELSE IF Lt(RsiVal, cfg.rsi_lower) THEN <<1>>
    ELSE <<>>

ExpectedMacdVotes ==
    IF Gt(MacdVal, MacdSignalVal) THEN <<1>>
    ELSE IF Lt(MacdVal, MacdSignalVal) THEN <<-1>>
    ELSE <<>>

LabelOf(v) ==
    IF v = <<>> THEN "neutral"
    ELSE IF Score(v) >= 2 THEN "strong_buy"
    ELSE IF Score(v) = 1 THEN "buy"
    ELSE IF Score(v) = 0 THEN "neutral"
    ELSE IF Score(v) = -1 THEN "sell"
    ELSE "strong_sell"

\* C10: with sma_fast = sma_slow both SMAs live under one column key, the
\* SMA bias is always "neutral", the SMA casts no vote, and the overall
\* signal is the one the RSI and MACD votes alone determine.
C10_SameWindowSmaSilent ==
    cfg.sma_fast = cfg.sma_slow =>
        /\ TableComputed =>
              \A i \in 1..Len(df) :
                 DOMAIN df[i].col =
                    {"open", "high", "low", "close", "volume", "rsi", "macd",
                     "macd_signal", "macd_hist", SmaKey(cfg.sma_fast)}
        /\ Classified =>
              /\ signal.details.sma_bias = "neutral"
              /\ vote_steps[1] = <<>>
              /\ signal_votes = ExpectedRsiVotes \o ExpectedMacdVotes
              /\ signal.overall_signal = LabelOf(ExpectedRsiVotes \o ExpectedMacdVotes)

\* equal windows, and both the RSI and the MACD voted
C10_Witness ==
    /\ cfg.sma_fast = cfg.sma_slow
    /\ pc = "done"
    /\ Len(signal_votes) = 2

====
